---- MODULE Spec2Model ----
(***************************************************************************)
(* Model of the mbox-to-pst toolkit's partitioning logic.                  *)
(*                                                                         *)
(*  - eml_to_pst_import.py: PstRouter (the ledger cur / year, route,       *)
(*    _rotate_new, _need_rotate_seq, _ensure_year), create_or_attach_pst   *)
(*    as seen from the router (a fresh store handle at a path, or an       *)
(*    exception), and main's loop: read, route, place, periodic flush,     *)
(*    final flush.                                                         *)
(*  - mbox_to_eml_exporter.py: fits_limits and the directory trackers of   *)
(*    process_single_mbox.                                                 *)
(*                                                                         *)
(* A PST path os.path.join(out_dir, base + "_" + suffix + ".pst") is       *)
(* modelled by its suffix: <<0, n>> for "part<n>", <<y, n>> for            *)
(* "<y>_part<n>" (years are >= 1, so the two never collide).               *)
(***************************************************************************)
EXTENDS Integers, Sequences, FiniteSets, TLC

\* ---------------------------------------------------------------- bounds
MaxFiles == 3        \* files read and routed in one run of the importer
MaxSize == 2         \* largest item size
MaxCap == 2          \* largest max_bytes
MaxSplits == 2       \* largest --splits
MaxTotal == 3        \* the pre-scan total of the general runs
FlushPeriod == 2     \* --flush-every, when it is on
MaxMsgs == 5         \* messages read in one run of the exporter
MaxMsgSize == 2      \* largest exported message
MaxPerDir == 2       \* largest --max-per-dir
MaxDirBytes == 3     \* largest --max-dir-bytes, in bytes
MaxMbox == 2         \* mbox files of one exporter run
MaxUniFiles == 10    \* files of a uniform even-split run
MaxUniSplits == 4    \* largest --splits of a uniform even-split run
MaxPlanTotal == 4    \* largest pre-scan total of the planner runs

\* ------------------------------------------------------------- constants
SentinelYear == 1970
NoTarget == 0
NoStore == <<>>
NoPath == <<>>
Dates == {0, 1970, 2020}      \* 0: no parsable Date header
Primaries == {2020, 2021}     \* the exporter's primary directories
UniSizes == {1, 2, 100}       \* the item size of a uniform even-split run

VARIABLES
    \* PstRouter configuration
    by_year, max_bytes, splits, target_bytes,
    \* main's configuration and pre-scan
    flush_every, total_bytes,
    \* PstRouter ledger
    cur, year,
    \* the MAPI namespace: the attached stores (rotated-out ones included), and
    \* for the current PST path of each lineage the number of stores created
    \* there so far and the number of items its file holds
    stores, gens, disk,
    \* main's position and locals
    pc, outcome, processed, store, pst_path,
    \* history of the run (not read by the program)
    lastRetired, maxItem, provisioned, routeLog, preBytes, routedKey,
    routedSize, flushH,
    \* exporter: limits, the shared directory trackers, main's and
    \* process_single_mbox's counters
    max_per_dir, max_dir_bytes, dir_counts, dir_bytes, mbox, msgs, exported,
    skipped,
    \* exporter history: the largest message written
    bigMsg

cfgVars == <<by_year, max_bytes, splits, target_bytes, flush_every, total_bytes>>
ledgerVars == <<cur, year>>
nsVars == <<stores, gens, disk>>
mainVars == <<pc, outcome, processed, store, pst_path>>
histVars == <<lastRetired, maxItem, provisioned, routeLog, preBytes, routedKey,
              routedSize, flushH>>
impVars == <<cfgVars, ledgerVars, nsVars, mainVars, histVars>>
expVars == <<max_per_dir, max_dir_bytes, dir_counts, dir_bytes, mbox, msgs,
             exported, skipped, bigMsg>>
vars == <<impVars, expVars>>

\* ------------------------------------------------------ pure definitions
Max(a, b) == IF a >= b THEN a ELSE b

\* set_total_bytes without the floor of 1.
SetTotalBytesNoFloor(total, n) ==
    IF n # 0 /\ n > 0 THEN total \div n ELSE NoTarget

\* set_total_bytes: the even-split target, or none.
SetTotalBytes(total, n) ==
    IF n # 0 /\ n > 0 THEN Max(1, total \div n) ELSE NoTarget

\* _new_path: injective in the suffix.
NewPath(suffix) == suffix

\* main: year = 1970 unless the Date header parses.
YearHint(date) == IF date # 0 THEN date ELSE SentinelYear

\* route: y = year_hint or 1970.
ResolveKey(year_hint) == IF year_hint # 0 THEN year_hint ELSE SentinelYear

\* main: router.route(sz or len(raw), year).
ApproxSize(sz, rawlen) == IF sz # 0 THEN sz ELSE rawlen

\* PstRouter.__init__: the ledger of the single lineage.
InitCur == [store |-> NoStore, path |-> NoPath, bytes |-> 0, part |-> 0]

\* _need_rotate_seq with the cap checked on the bytes already held only.
NeedRotateSeqPostCheck(c, incoming) ==
    \/ c.store # NoStore /\ c.bytes > max_bytes
    \/ target_bytes # NoTarget /\ c.store # NoStore /\ c.bytes >= target_bytes

\* _need_rotate_seq
NeedRotateSeq(c, incoming) ==
    \/ c.store # NoStore /\ c.bytes + incoming > max_bytes
    \/ target_bytes # NoTarget /\ c.store # NoStore /\ c.bytes >= target_bytes

\* route, sequential branch: does this item provision a container?
SeqProvisions(c, incoming) == c.store = NoStore \/ NeedRotateSeq(c, incoming)

\* _rotate_new without the reset of "bytes".
RotateNewKeepBytes(c, h) ==
    [c EXCEPT !.part = c.part + 1,
              !.store = h,
              !.path = NewPath(<<0, c.part + 1>>)]

\* _rotate_new, create_or_attach_pst returning handle h.
RotateNew(c, h) ==
    [c EXCEPT !.part = c.part + 1,
              !.store = h,
              !.path = NewPath(<<0, c.part + 1>>),
              !.bytes = 0]

\* _rotate_new, create_or_attach_pst raising: the part is already incremented.
RotateNewFailed(c) == [c EXCEPT !.part = c.part + 1]

\* route, sequential branch, crediting the item before the rotation.
RouteSeqAddFirst(c, size, h) ==
    LET a == [c EXCEPT !.bytes = c.bytes + size]
    IN  IF SeqProvisions(c, size) THEN RotateNew(a, h) ELSE a

\* route, sequential branch, with the handle a provisioning would return.
RouteSeq(c, size, h) ==
    LET r == IF SeqProvisions(c, size) THEN RotateNew(c, h) ELSE c
    IN  [r EXCEPT !.bytes = r.bytes + size]

\* _ensure_year: the two provisioning branches.
YearIsNew(yd, y) == y \notin DOMAIN yd

\* The rotation test of _ensure_year with _need_rotate_seq's target test added.
YearRotatesOrTarget(yd, y, incoming) ==
    /\ y \in DOMAIN yd
    /\ \/ yd[y].bytes + incoming > max_bytes
       \/ target_bytes # NoTarget /\ yd[y].bytes >= target_bytes

YearRotates(yd, y, incoming) ==
    y \in DOMAIN yd /\ yd[y].bytes + incoming > max_bytes
YearProvisions(yd, y, incoming) == YearIsNew(yd, y) \/ YearRotates(yd, y, incoming)

\* The keyed suffix without the year.
YearPathNoYear(y, part) == NewPath(<<0, part>>)

\* _ensure_year: the path of a year's part.
YearPath(y, part) == NewPath(<<y, part>>)

\* _ensure_year with a rotation that skips a part number.
EnsureYearSkipPart(yd, y, incoming, h) ==
    IF YearIsNew(yd, y)
    THEN (y :> [path |-> YearPath(y, 1), store |-> h, bytes |-> 0, part |-> 1]) @@ yd
    ELSE IF YearRotates(yd, y, incoming)
    THEN [yd EXCEPT ![y] = [path |-> YearPath(y, yd[y].part + 2), store |-> h,
                            bytes |-> 0, part |-> yd[y].part + 2]]
    ELSE yd

\* _ensure_year, create_or_attach_pst returning handle h.

EnsureYear(yd, y, incoming, h) ==
    IF YearIsNew(yd, y)
    THEN (y :> [path |-> YearPath(y, 1), store |-> h, bytes |-> 0, part |-> 1]) @@ yd
    ELSE IF YearRotates(yd, y, incoming)
    THEN [yd EXCEPT ![y] = [path |-> YearPath(y, yd[y].part + 1), store |-> h,
                            bytes |-> 0, part |-> yd[y].part + 1]]
    ELSE yd

\* _ensure_year, create_or_attach_pst raising: a new year is not registered,
\* a rotating year keeps its incremented part.
EnsureYearFailed(yd, y) ==
    IF YearIsNew(yd, y) THEN yd ELSE [yd EXCEPT ![y].part = yd[y].part + 1]

\* route, keyed branch, without the credit of the item's size.
RouteYearNoCredit(yd, y, size, h) == EnsureYear(yd, y, size, h)

\* route, keyed branch.
RouteYear(yd, y, size, h) ==
    LET e == EnsureYear(yd, y, size, h)
    IN  [e EXCEPT ![y].bytes = e[y].bytes + size]

\* A store handle is <<path, n>>: the n-th store created at that path.
HandlePath(h) == h[1]

\* create_or_attach_pst succeeding at path with handle h: a store attached at
\* that path is removed, the file is deleted and created anew.
Attach(ns, path, h) == {s \in ns : HandlePath(s) # path} \cup {h}

\* create_or_attach_pst raising after its removals.
AttachFailed(ns, path) == {s \in ns : HandlePath(s) # path}

\* create_or_attach_pst on the file at path, d the item count of each file:
\* os.remove deletes it and AddStore creates an empty one, or os.remove raises
\* (the exception is swallowed) and AddStore opens the file as it is.
FileAfterAttach(d, path, removed) ==
    [z \in DOMAIN d \cup {path} |->
        IF z = path /\ (removed \/ path \notin DOMAIN d) THEN 0 ELSE d[z]]

\* ns.RemoveStore(root): detaches the store with that handle.
RemoveStore(ns, h) == ns \ {h}

\* main: the periodic flush is due after this many processed items.
FlushDue(n) == flush_every # 0 /\ n % flush_every = 0

\* A flush that resets the lineage's accumulator.
FlushLedgerReset(l) == [l EXCEPT !.bytes = 0]

\* main, periodic flush: what it assigns in the router's ledger (nothing).
FlushLedger(l) == l

\* route's exception caught and logged like a placement failure.
OnProvisionFailureContinue == "next"

\* main: where control goes when route raises (no handler but finally).
OnProvisionFailure == "cleanup"

\* The flush's exception propagating like route's.
OnFlushFailureAbort == "cleanup"

\* main, periodic flush: where control goes when the flush raises (the except
\* clause logs and the loop goes on).
OnFlushFailure == "next"

\* main, finally: the handles the final flush removes.
LedgerHandles ==
    {year[y].store : y \in DOMAIN year} \cup
    (IF cur.store # NoStore THEN {cur.store} ELSE {})

\* ------------------------------------------------------------- importer
\* The exporter is another program: it does not run beside the importer.
ExporterIdle ==
    /\ max_per_dir = 0 /\ max_dir_bytes = 0
    /\ dir_counts = <<>> /\ dir_bytes = <<>>
    /\ mbox = 0 /\ msgs = 0 /\ exported = 0 /\ skipped = 0
    /\ bigMsg = 0

Init ==
    /\ ExporterIdle
    /\ by_year \in BOOLEAN
    /\ max_bytes \in 0..MaxCap
    /\ splits \in 0..MaxSplits
    /\ total_bytes = MaxTotal
    /\ target_bytes = SetTotalBytes(total_bytes, splits)
    /\ flush_every \in {0, FlushPeriod}
    /\ cur = InitCur
    /\ year = <<>>
    /\ stores = {}
    /\ gens = <<>>
    /\ disk = <<>>
    /\ pc = "next"
    /\ outcome = "running"
    /\ processed = 0
    /\ store = NoStore
    /\ pst_path = NoPath
    /\ lastRetired = <<>>
    /\ maxItem = 0
    /\ provisioned = <<>>
    /\ routeLog = {}
    /\ preBytes = 0
    /\ routedKey = 0
    /\ routedSize = 0
    /\ flushH = <<>>

\* The lineage an item belongs to: its year, or 0 for the single lineage.
LineageKey(date) == IF by_year THEN ResolveKey(YearHint(date)) ELSE 0

HasLineage(k) == IF k = 0 THEN cur.store # NoStore ELSE k \in DOMAIN year

Lineage(k) == IF k = 0 THEN cur ELSE year[k]

Provisions(k, size) ==
    IF k = 0 THEN SeqProvisions(cur, size) ELSE YearProvisions(year, k, size)

\* The ledger after route(size, k), were the provisioning to return handle h.
RoutedCur(k, size, h) == IF k = 0 THEN RouteSeq(cur, size, h) ELSE cur
RoutedYear(k, size, h) == IF k = 0 THEN year ELSE RouteYear(year, k, size, h)
Routed(k, size, h) ==
    IF k = 0 THEN RoutedCur(k, size, h) ELSE RoutedYear(k, size, h)[k]

\* The handle the next successful create_or_attach_pst at path returns.
FreshHandle(path) == <<path, (IF path \in DOMAIN gens THEN gens[path] ELSE 0) + 1>>

\* f with x mapped to v, and without the entries of the set gone.
Put(f, gone, x, v) ==
    [z \in (DOMAIN f \ gone) \cup {x} |-> IF z = x THEN v ELSE f[z]]

\* for (path, sz) in files: the file cannot be read; continue.
ReadFail ==
    /\ pc = "next"
    /\ UNCHANGED vars

\* router.route(sz or len(raw), year), every provisioning succeeding.
RouteStep(size, date) ==
    /\ pc = "next"
    /\ UNCHANGED expVars
    /\ LET k == LineageKey(date)
           prov == Provisions(k, size)
           has == HasLineage(k)
           old == IF k = 0 \/ has THEN Lineage(k) ELSE InitCur
           path == Routed(k, size, NoStore).path
           h == FreshHandle(path)
           l == Routed(k, size, h)
       IN  /\ cur' = RoutedCur(k, size, h)
           /\ year' = RoutedYear(k, size, h)
           /\ stores' = IF prov THEN Attach(stores, path, h) ELSE stores
           /\ gens' = IF prov THEN Put(gens, {old.path}, path, h[2]) ELSE gens
           /\ disk' = IF prov THEN Put(disk, {old.path}, path, 0) ELSE disk
           /\ store' = l.store
           /\ pst_path' = l.path
           /\ lastRetired' = IF prov /\ has
                             THEN [path |-> old.path, bytes |-> old.bytes,
                                   big |-> maxItem]
                             ELSE <<>>
           /\ maxItem' = Max(maxItem, size)
           /\ provisioned' =
                  IF prov
                  THEN Put(provisioned, {}, k,
                           Append(IF k \in DOMAIN provisioned
                                  THEN provisioned[k] ELSE <<>>, l.part))
                  ELSE provisioned
           /\ routeLog' = routeLog \cup
                  {[key |-> k, part |-> l.part, store |-> l.store, path |-> l.path]}
           /\ preBytes' = old.bytes
           /\ routedKey' = k
           /\ routedSize' = size
    /\ pc' = "place"
    /\ UNCHANGED <<cfgVars, outcome, processed, flushH>>

RouteOK(sz, rawlen, date) ==
    /\ processed < MaxFiles
    /\ sz # 0 => rawlen = sz
    /\ RouteStep(ApproxSize(sz, rawlen), date)

\* router.route raising: create_or_attach_pst fails for the container the item
\* needs; the exception leaves the loop.
RouteProvisionFails(sz, rawlen, date) ==
    /\ pc = "next" /\ processed < MaxFiles
    /\ UNCHANGED expVars
    /\ sz # 0 => rawlen = sz
    /\ LET size == ApproxSize(sz, rawlen)
           k == LineageKey(date)
       IN  /\ Provisions(k, size)
           /\ cur' = IF k = 0 THEN RotateNewFailed(cur) ELSE cur
           /\ year' = IF k = 0 THEN year ELSE EnsureYearFailed(year, k)
    /\ pc' = OnProvisionFailure
    /\ outcome' = "failed"
    /\ UNCHANGED <<cfgVars, nsVars, processed, store, pst_path, histVars>>

\* What main's locals store and pst_path hold at position p: at the loop head
\* they are dead (the next route rebinds them before any read).
Local(p, v) == IF p = "next" THEN <<>> ELSE v

\* create_mail_in_dest .. item.Save(): the item lands in the routed store, or
\* the failure is caught and logged; processed += 1 either way.
Place(ok) ==
    /\ pc = "place"
    /\ UNCHANGED expVars
    /\ disk' = IF ok /\ pst_path \in DOMAIN disk
               THEN [disk EXCEPT ![pst_path] = @ + 1] ELSE disk
    /\ processed' = processed + 1
    /\ pc' = IF FlushDue(processed + 1) THEN "flush" ELSE "next"
    /\ store' = Local(pc', store)
    /\ pst_path' = Local(pc', pst_path)
    /\ lastRetired' = <<>>
    /\ preBytes' = 0
    /\ routedKey' = 0
    /\ routedSize' = 0
    /\ UNCHANGED <<cfgVars, ledgerVars, stores, gens, outcome, maxItem,
                   provisioned, routeLog, flushH>>

\* Periodic flush, ns.RemoveStore(root) raising: nothing is re-attached.
FlushReleaseFails ==
    /\ pc = "flush"
    /\ UNCHANGED expVars
    /\ pc' = OnFlushFailure
    /\ cur' = FlushLedger(cur)
    /\ year' = [y \in DOMAIN year |-> FlushLedger(year[y])]
    /\ store' = Local(pc', store)
    /\ pst_path' = Local(pc', pst_path)
    /\ UNCHANGED <<cfgVars, nsVars, outcome, processed, histVars>>

\* Periodic flush, create_or_attach_pst raising after the store was removed.
FlushProvisionFails(removed) ==
    /\ pc = "flush"
    /\ UNCHANGED expVars
    /\ pc' = OnFlushFailure
    /\ stores' = AttachFailed(RemoveStore(stores, store), pst_path)
    /\ disk' = FileAfterAttach(disk, pst_path, removed)
    /\ cur' = FlushLedger(cur)
    /\ year' = [y \in DOMAIN year |-> FlushLedger(year[y])]
    /\ store' = Local(pc', store)
    /\ pst_path' = Local(pc', pst_path)
    /\ UNCHANGED <<cfgVars, gens, outcome, processed, histVars>>

\* Periodic flush succeeding: main's locals store, root, pst_path are rebound
\* to the re-attached store; the PST file was deleted and created anew, or
\* could not be deleted and was opened again.
FlushOK(removed) ==
    /\ pc = "flush"
    /\ UNCHANGED expVars
    /\ pc' = "next"
    /\ LET h == FreshHandle(pst_path)
       IN  /\ stores' = Attach(RemoveStore(stores, store), pst_path, h)
           /\ gens' = Put(gens, {}, pst_path, h[2])
           /\ store' = Local(pc', h)
           /\ flushH' = [path |-> pst_path, h |-> h]
    /\ pst_path' = Local(pc', pst_path)
    /\ disk' = FileAfterAttach(disk, pst_path, removed)
    /\ cur' = FlushLedger(cur)
    /\ year' = [y \in DOMAIN year |-> FlushLedger(year[y])]
    /\ UNCHANGED <<cfgVars, outcome, processed, lastRetired, maxItem,
                   provisioned, routeLog, preBytes, routedKey, routedSize>>

\* The file list is exhausted: "Done." and on to the finally block.
EndOfStream ==
    /\ pc = "next"
    /\ UNCHANGED expVars
    /\ pc' = "cleanup"
    /\ outcome' = "ok"
    /\ UNCHANGED <<cfgVars, ledgerVars, nsVars, processed, store, pst_path,
                   histVars>>

\* finally: RemoveStore on every handle of the ledger, then exit.
Cleanup ==
    /\ pc = "cleanup"
    /\ UNCHANGED expVars
    /\ stores' = stores \ LedgerHandles
    /\ pc' = "exit"
    /\ UNCHANGED <<cfgVars, ledgerVars, gens, disk, outcome, processed, store,
                   pst_path, histVars>>

Next ==
    \/ ReadFail
    \/ \E sz \in 0..MaxSize, rawlen \in 0..MaxSize, date \in Dates :
           RouteOK(sz, rawlen, date)
    \/ \E sz \in 0..MaxSize, rawlen \in 0..MaxSize, date \in Dates :
           RouteProvisionFails(sz, rawlen, date)
    \/ \E ok \in BOOLEAN : Place(ok)
    \/ FlushReleaseFails
    \/ \E removed \in BOOLEAN : FlushProvisionFails(removed)
    \/ \E removed \in BOOLEAN : FlushOK(removed)
    \/ EndOfStream
    \/ Cleanup

Spec == Init /\ [][Next]_vars

\* ------------------------------------- even split over a uniform stream
\* --splits n over k readable files of one size s, --max-pst-gb never binding.
InitEven ==
    /\ ExporterIdle
    /\ by_year = FALSE
    /\ splits \in 1..MaxUniSplits
    /\ \E s \in UniSizes, k \in 1..MaxUniFiles : total_bytes = k * s
    /\ max_bytes = total_bytes
    /\ target_bytes = SetTotalBytes(total_bytes, splits)
    /\ flush_every = 0
    /\ cur = InitCur
    /\ year = <<>>
    /\ stores = {}
    /\ gens = <<>>
    /\ disk = <<>>
    /\ pc = "next"
    /\ outcome = "running"
    /\ processed = 0
    /\ store = NoStore
    /\ pst_path = NoPath
    /\ lastRetired = <<>>
    /\ maxItem = 0
    /\ provisioned = <<>>
    /\ routeLog = {}
    /\ preBytes = 0
    /\ routedKey = 0
    /\ routedSize = 0
    /\ flushH = <<>>

\* route on the next file of the uniform stream.
RouteUniform(size) ==
    /\ processed < MaxUniFiles
    /\ processed = 0 \/ size = maxItem
    /\ total_bytes % size = 0
    /\ (processed + 1) * size <= total_bytes
    /\ RouteStep(size, 0)

\* The uniform stream is exhausted when its files add up to the pre-scan total.
EndOfUniformStream ==
    /\ processed * maxItem = total_bytes
    /\ EndOfStream

NextEven ==
    \/ \E size \in UniSizes : RouteUniform(size)
    \/ Place(TRUE)
    \/ EndOfUniformStream
    \/ Cleanup

SpecEven == InitEven /\ [][NextEven]_vars

\* --------------------------------------------- the even-split planner
\* list_eml_files and set_total_bytes over any pre-scan total (a file whose
\* size cannot be read counts 0 in the total and is routed by len(raw)), then
\* the sequential loop without flushes.
InitPlan ==
    /\ ExporterIdle
    /\ by_year = FALSE
    /\ max_bytes \in 0..MaxCap
    /\ splits \in 0..MaxSplits
    /\ total_bytes \in 0..MaxPlanTotal
    /\ target_bytes = SetTotalBytes(total_bytes, splits)
    /\ flush_every = 0
    /\ cur = InitCur
    /\ year = <<>>
    /\ stores = {}
    /\ gens = <<>>
    /\ disk = <<>>
    /\ pc = "next"
    /\ outcome = "running"
    /\ processed = 0
    /\ store = NoStore
    /\ pst_path = NoPath
    /\ lastRetired = <<>>
    /\ maxItem = 0
    /\ provisioned = <<>>
    /\ routeLog = {}
    /\ preBytes = 0
    /\ routedKey = 0
    /\ routedSize = 0
    /\ flushH = <<>>

NextPlan ==
    \/ \E sz \in 0..MaxSize, rawlen \in 0..MaxSize : RouteOK(sz, rawlen, 0)
    \/ \E ok \in BOOLEAN : Place(ok)
    \/ EndOfStream
    \/ Cleanup

SpecPlan == InitPlan /\ [][NextPlan]_vars

\* ------------------------------------------------------------- exporter
\* dict.get(d, 0)
Get(f, d) == IF d \in DOMAIN f THEN f[d] ELSE 0

\* fits_limits with the count compared by > instead of >=.
FitsLimitsOffByOne(count_in_dir, bytes_in_dir, mpd, mdb) ==
    IF mpd # 0 /\ count_in_dir > mpd THEN FALSE
    ELSE IF mdb # 0 /\ bytes_in_dir >= mdb THEN FALSE
    ELSE TRUE

\* fits_limits asking for room for one more item below the count limit.
FitsLimitsNeedsRoom(count_in_dir, bytes_in_dir, mpd, mdb) ==
    IF mpd # 0 /\ count_in_dir + 1 >= mpd THEN FALSE
    ELSE IF mdb # 0 /\ bytes_in_dir >= mdb THEN FALSE
    ELSE TRUE

\* fits_limits
FitsLimits(count_in_dir, bytes_in_dir, mpd, mdb) ==
    IF mpd # 0 /\ count_in_dir >= mpd THEN FALSE
    ELSE IF mdb # 0 /\ bytes_in_dir >= mdb THEN FALSE
    ELSE TRUE

\* The primary directory of a year, and base_dir + "__part<n>".
PrimaryDir(base) == <<base, 1>>
AltDir(base, part) == <<base, part>>

Fits(dir) ==
    FitsLimits(Get(dir_counts, dir), Get(dir_bytes, dir), max_per_dir, max_dir_bytes)

\* process_single_mbox: while True: alt = base_dir + "__part<part>" ...
RECURSIVE Probe(_, _)
Probe(base, part) ==
    IF Fits(AltDir(base, part)) THEN AltDir(base, part) ELSE Probe(base, part + 1)

\* The search going to the alternates without a look at the primary.
DestDirAlwaysProbe(base) == Probe(base, 2)

\* process_single_mbox: the directory the message is written to.
DestDir(base) ==
    IF Fits(PrimaryDir(base)) THEN PrimaryDir(base) ELSE Probe(base, 2)

\* The importer is another program: it does not run beside the exporter.
ImporterIdle ==
    /\ by_year = FALSE /\ max_bytes = 0 /\ splits = 0 /\ total_bytes = 0
    /\ target_bytes = NoTarget /\ flush_every = 0
    /\ cur = InitCur /\ year = <<>>
    /\ stores = {} /\ gens = <<>> /\ disk = <<>>
    /\ pc = "idle" /\ outcome = "running" /\ processed = 0
    /\ store = NoStore /\ pst_path = NoPath
    /\ lastRetired = <<>> /\ maxItem = 0 /\ provisioned = <<>> /\ routeLog = {}
    /\ preBytes = 0 /\ routedKey = 0 /\ routedSize = 0 /\ flushH = <<>>

InitExport ==
    /\ ImporterIdle
    /\ max_per_dir \in 0..MaxPerDir
    /\ max_dir_bytes \in 0..MaxDirBytes
    /\ dir_counts = <<>>
    /\ dir_bytes = <<>>
    /\ mbox = 0
    /\ msgs = 0
    /\ exported = 0
    /\ skipped = 0
    /\ bigMsg = 0

\* main: process_single_mbox on the next mbox file, with the same trackers.
OpenMbox ==
    /\ mbox < MaxMbox
    /\ mbox' = mbox + 1
    /\ UNCHANGED <<impVars, max_per_dir, max_dir_bytes, dir_counts, dir_bytes,
                   msgs, exported, skipped, bigMsg>>

\* process_single_mbox: the message's year is outside --start-year/--end-year.
FilterSkip ==
    /\ mbox >= 1 /\ msgs < MaxMsgs
    /\ msgs' = msgs + 1
    /\ skipped' = skipped + 1
    /\ UNCHANGED <<impVars, max_per_dir, max_dir_bytes, dir_counts, dir_bytes,
                   mbox, exported, bigMsg>>

\* process_single_mbox: one message written into its directory.
ExportMsg(base, size) ==
    /\ mbox >= 1 /\ msgs < MaxMsgs
    /\ LET dest == DestDir(base)
       IN  /\ dir_counts' = Put(dir_counts, {}, dest, Get(dir_counts, dest) + 1)
           /\ dir_bytes' = Put(dir_bytes, {}, dest, Get(dir_bytes, dest) + size)
    /\ msgs' = msgs + 1
    /\ exported' = exported + 1
    /\ bigMsg' = Max(bigMsg, size)
    /\ UNCHANGED <<impVars, max_per_dir, max_dir_bytes, mbox, skipped>>

\* The trackers updated before a write that then raises.
ExportMsgFailsTracked(base, size) ==
    /\ mbox >= 1 /\ msgs < MaxMsgs
    /\ LET dest == DestDir(base)
       IN  /\ dir_counts' = Put(dir_counts, {}, dest, Get(dir_counts, dest) + 1)
           /\ dir_bytes' = Put(dir_bytes, {}, dest, Get(dir_bytes, dest) + size)
    /\ msgs' = msgs + 1
    /\ skipped' = skipped + 1
    /\ UNCHANGED <<impVars, max_per_dir, max_dir_bytes, mbox, exported, bigMsg>>

\* process_single_mbox: open/write raising; the message is skipped.
ExportMsgFails(base, size) ==
    /\ mbox >= 1 /\ msgs < MaxMsgs
    /\ msgs' = msgs + 1
    /\ skipped' = skipped + 1
    /\ UNCHANGED <<impVars, max_per_dir, max_dir_bytes, dir_counts, dir_bytes,
                   mbox, exported, bigMsg>>

NextExport ==
    \/ OpenMbox
    \/ FilterSkip
    \/ \E base \in Primaries, size \in 0..MaxMsgSize : ExportMsg(base, size)
    \/ \E base \in Primaries, size \in 0..MaxMsgSize : ExportMsgFails(base, size)

SpecExport == InitExport /\ [][NextExport]_vars

\* --------------------------------------------------------------- claims
\* The ledger entries of all lineages.
Entries == {cur} \cup {year[y] : y \in DOMAIN year}

Abs(x) == IF x >= 0 THEN x ELSE -x

\* C1, as stated: in sequential mode, whenever a rotation retires the current
\* container, the bytes the ledger recorded for it do not exceed max_bytes.
C1_RetiredWithinCap ==
    (~by_year /\ lastRetired # <<>>) => lastRetired.bytes <= max_bytes

\* C1, amended: in sequential mode, whenever a rotation retires the current
\* container, the bytes the ledger recorded for it do not exceed the larger
\* of max_bytes and the largest single item routed before that rotation.
C1_RetiredWithinCapOrOneItem ==
    (~by_year /\ lastRetired # <<>>) =>
        lastRetired.bytes <= Max(max_bytes, lastRetired.big)

\* A rotation has just retired a container that was filled up to the cap.
C1_Witness ==
    /\ ~by_year /\ lastRetired # <<>>
    /\ max_bytes > 0 /\ lastRetired.bytes = max_bytes

\* C2: in every reachable router state, in every mode, the bytes accumulated
\* for any container, open or just rotated out, never exceed max_bytes plus
\* the size of the largest single item routed in the stream.
C2_BytesWithinCapPlusItem ==
    /\ \A l \in Entries : l.bytes <= max_bytes + maxItem
    /\ lastRetired # <<>> => lastRetired.bytes <= max_bytes + maxItem

\* A container holds more than max_bytes: the pre-item check let it overshoot.
C2_Witness ==
    \E l \in Entries : max_bytes > 0 /\ l.store # NoStore /\ l.bytes > max_bytes

\* C3: within one lineage the part numbers of the containers provisioned are
\* exactly 1, 2, 3, ... in that order.
C3_PartsConsecutive ==
    \A k \in DOMAIN provisioned :
        \A i \in 1..Len(provisioned[k]) : provisioned[k][i] = i

\* A keyed lineage has reached its third part.
C3_Witness ==
    \E k \in DOMAIN provisioned : k # 0 /\ Len(provisioned[k]) >= 3

WithinOneItem(b) == Abs(b * splits - total_bytes) <= maxItem * splits

\* C5, as stated: with splits = N >= 1 over a uniform stream (here of at least
\* N items) and max_bytes never binding, routing the whole stream creates N or
\* N+1 containers and every container's final byte total, the last one's
\* included, is within one item's size of total_bytes / N.
C5_EvenSplitFairness ==
    /\ lastRetired # <<>> => WithinOneItem(lastRetired.bytes)
    /\ (pc = "exit" /\ outcome = "ok" /\ processed >= splits) =>
           /\ cur.part \in {splits, splits + 1}
           /\ WithinOneItem(cur.bytes)

\* C6: for every tracked directory the item count never exceeds max_per_dir
\* when max_per_dir > 0, and the byte total never exceeds max_dir_bytes plus
\* the largest single item's size when max_dir_bytes > 0.
C6_DirectoryCaps ==
    /\ max_per_dir > 0 => \A d \in DOMAIN dir_counts : dir_counts[d] <= max_per_dir
    /\ max_dir_bytes > 0 =>
           \A d \in DOMAIN dir_bytes : dir_bytes[d] <= max_dir_bytes + bigMsg

\* A directory is full by count, holds more than max_dir_bytes, and an
\* alternate directory is in use, in the second mbox file.
C6_Witness ==
    /\ mbox = 2 /\ max_per_dir > 0 /\ max_dir_bytes > 0
    /\ \E d \in DOMAIN dir_counts :
           /\ dir_counts[d] = max_per_dir
           /\ dir_bytes[d] > max_dir_bytes
    /\ \E d \in DOMAIN dir_counts : d[2] >= 2

\* C7: a periodic flush, whether it succeeds or fails, leaves the accumulated
\* bytes and the part number of every lineage unchanged.
C7_FlushKeepsCounters ==
    [][pc = "flush" =>
          /\ cur'.bytes = cur.bytes /\ cur'.part = cur.part
          /\ DOMAIN year' = DOMAIN year
          /\ \A y \in DOMAIN year :
                 year'[y].bytes = year[y].bytes /\ year'[y].part = year[y].part]_vars

\* A flush has re-attached the container of a lineage that holds bytes.
C7_Witness ==
    /\ flushH # <<>> /\ pc = "next"
    /\ \E l \in Entries : l.path = flushH.path /\ l.bytes > 0 /\ l.part >= 2

\* C8, as stated: after a successful flush the active lineage's ledger entry
\* holds the newly returned handle, and the next route call for that lineage
\* that does not rotate returns it.
C8_FlushRefreshesLedger ==
    flushH # <<>> =>
        /\ \A l \in Entries : l.path = flushH.path => l.store = flushH.h
        /\ (pc = "place" /\ pst_path = flushH.path) => store = flushH.h

\* C9, as stated: when writing a routed item fails, the accumulated bytes of
\* the lineage it was routed to are the same as before it was routed.
C9_FailedItemNotCounted ==
    [][(pc = "place" /\ disk' = disk) =>
          (IF routedKey = 0 THEN cur' ELSE year'[routedKey]).bytes = preBytes]_vars

\* C10: a provisioning failure in route ends the loop: the pending item is
\* neither routed nor placed, nothing is routed or placed afterwards, and the
\* run goes through the cleanup step to a failed outcome.
C10_ProvisionFailureFatal ==
    [][outcome' = "failed" =>
          /\ pc' \in {"cleanup", "exit"}
          /\ processed' = processed /\ routeLog' = routeLog /\ disk' = disk
          /\ outcome = "failed" => (pc = "cleanup" /\ pc' = "exit"
                                     /\ cur' = cur /\ year' = year)]_vars

\* A run that failed in a rotation, after items were placed, has exited.
C10_Witness ==
    /\ outcome = "failed" /\ pc = "exit" /\ processed >= 1
    /\ \/ cur.part >= 2
       \/ \E y \in DOMAIN year : year[y].part >= 2

\* The lineage keys of a run: 0 for the single lineage, the years otherwise.
Keys == {0} \cup {ResolveKey(YearHint(d)) : d \in Dates}

\* C11: when the release or the re-provision step of a periodic flush fails,
\* the run is not aborted and the loop goes on to the next item, every ledger
\* entry keeps the handle, path, bytes and part it had before the flush, and
\* the rotation decision for every key and item size is the one the ledger
\* gave before the flush was attempted.
C11_FlushFailureNonFatal ==
    [][(pc = "flush" /\ gens' = gens) =>
          /\ pc' = "next" /\ outcome' = outcome /\ processed' = processed
          /\ cur' = cur /\ year' = year
          /\ \A k \in Keys, size \in 0..MaxSize :
                 (by_year <=> k # 0) =>
                     (Provisions(k, size)' <=> Provisions(k, size))]_vars

\* The flush due after FlushPeriod items failed in its re-provision step (the
\* lineage's store is detached, no flush ever succeeded), and the next item
\* has been routed to the same lineage without a rotation.
C11_Witness ==
    /\ pc = "place" /\ flush_every # 0 /\ processed = flush_every
    /\ flushH = <<>> /\ outcome = "running"
    /\ lastRetired = <<>> /\ preBytes > 0
    /\ store \notin stores

\* The stores attached at the current path of a ledger entry.
OpenAt(l) == {s \in stores : HandlePath(s) = l.path}

\* C12, as stated: once the run has ended, after the stream was exhausted or
\* after a fatal abort, no store is attached any more at the current path of
\* any lineage, whatever periodic flushes re-provisioned earlier.
C12_ActiveReleasedAtExit ==
    pc = "exit" => \A l \in Entries : l.store # NoStore => OpenAt(l) = {}

\* The lineage a store belongs to: the key in its path.
StoreKey(s) == HandlePath(s)[1]

\* C13, as stated: at every point of the run each lineage has at most one
\* attached store, and once the run has ended no store is attached at a path
\* a lineage has rotated away from.
C13_OneOpenPerLineage ==
    /\ \A a, b \in stores : StoreKey(a) = StoreKey(b) => a = b
    /\ pc = "exit" => \A s \in stores : \E l \in Entries : HandlePath(s) = l.path

\* C14: in sequential mode every route call rotates if and only if no
\* container is open yet, or cur.bytes + size > max_bytes, or --splits is set
\* and cur.bytes >= target_bytes, all on the ledger before the item is added.
\* A rotation increments the part, provisions the container of the new part
\* and restarts the bytes at 0; the item's size is then added and the current
\* container is returned.
C14_SequentialRule ==
    [][(~by_year /\ pc = "next" /\ pc' = "place") =>
          LET size == routedSize'
              rot == \/ cur.store = NoStore
                     \/ cur.bytes + size > max_bytes
                     \/ splits > 0 /\ cur.bytes >= target_bytes
          IN  /\ rot => /\ cur'.part = cur.part + 1
                        /\ cur'.bytes = size
                        /\ cur'.path = NewPath(<<0, cur'.part>>)
                        /\ cur'.store \in stores' \ stores
                        /\ HandlePath(cur'.store) = cur'.path
              /\ ~rot => /\ cur'.part = cur.part
                         /\ cur'.bytes = cur.bytes + size
                         /\ cur'.path = cur.path /\ cur'.store = cur.store
                         /\ stores' = stores
              /\ store' = cur'.store /\ pst_path' = cur'.path
              /\ year' = year]_vars

\* Cap 2 and three items of 1, without --splits: the first two share part 1,
\* the third has just rotated to part 2.
C14_Witness ==
    /\ ~by_year /\ splits = 0 /\ max_bytes = 2 /\ pc = "place"
    /\ processed = 2 /\ maxItem = 1 /\ routedSize = 1
    /\ lastRetired # <<>> /\ lastRetired.bytes = 2
    /\ cur.part = 2 /\ cur.bytes = 1

\* C15: in keyed mode every route call with resolved key k creates k's
\* lineage at part 1 with zero bytes if it has none; otherwise it rotates the
\* lineage (part + 1, a new container, bytes restarted at 0) if and only if
\* its bytes + size > max_bytes, whatever the even-split target; the item's
\* size is then added to k's lineage, whose container is returned, and the
\* lineages of all other keys are left as they were.
C15_KeyedRule ==
    [][(by_year /\ pc = "next" /\ pc' = "place") =>
          LET k == routedKey'
              size == routedSize'
              new == k \notin DOMAIN year
              rot == ~new /\ year[k].bytes + size > max_bytes
          IN  /\ k # 0 /\ DOMAIN year' = DOMAIN year \cup {k}
              /\ new => /\ year'[k].part = 1
                        /\ year'[k].bytes = size
              /\ rot => /\ year'[k].part = year[k].part + 1
                        /\ year'[k].bytes = size
              /\ (new \/ rot) =>
                     /\ year'[k].path = NewPath(<<k, year'[k].part>>)
                     /\ year'[k].store \in stores' \ stores
                     /\ HandlePath(year'[k].store) = year'[k].path
              /\ ~(new \/ rot) =>
                     /\ year'[k].part = year[k].part
                     /\ year'[k].bytes = year[k].bytes + size
                     /\ year'[k].path = year[k].path
                     /\ year'[k].store = year[k].store
                     /\ stores' = stores
              /\ \A j \in DOMAIN year \ {k} : year'[j] = year[j]
              /\ store' = year'[k].store /\ pst_path' = year'[k].path
              /\ cur' = cur]_vars

\* With --splits set, an item has just been added to a year that already held
\* the even-split target, without a rotation, beside another year's lineage.
C15_Witness ==
    /\ by_year /\ target_bytes # NoTarget /\ pc = "place"
    /\ routedKey \in DOMAIN year /\ Cardinality(DOMAIN year) >= 2
    /\ lastRetired = <<>> /\ preBytes >= target_bytes /\ routedSize > 0
    /\ year[routedKey].part = 1
    /\ year[routedKey].bytes = preBytes + routedSize

\* max(1, total_bytes div splits), for splits >= 1.
PlannedTarget ==
    IF total_bytes \div splits >= 1 THEN total_bytes \div splits ELSE 1

\* The target set_total_bytes must have left for the run's --splits.
TargetAsPlanned ==
    IF splits >= 1 THEN target_bytes = PlannedTarget ELSE target_bytes = NoTarget

\* C16: for every total_bytes >= 0 and splits >= 1 the target is
\* max(1, total_bytes div splits), before the first item and after every step
\* of the stream; with splits absent or zero there is no target, and the
\* sequential router rotates exactly on the first item and when
\* cur.bytes + size > max_bytes.
C16_PlannerTarget ==
    [][/\ TargetAsPlanned /\ TargetAsPlanned'
       /\ target_bytes' = target_bytes
       /\ (splits = 0 /\ pc = "next" /\ pc' = "place") =>
              (cur'.part # cur.part <=>
                   (cur.store = NoStore \/ cur.bytes + routedSize' > max_bytes))]_vars

\* The total is smaller than --splits, the target is the floor 1, and that
\* target (not the cap) has just rotated the lineage.
C16_Witness ==
    /\ splits >= 1 /\ total_bytes < splits /\ target_bytes = 1
    /\ pc = "place" /\ lastRetired # <<>>
    /\ lastRetired.bytes + routedSize <= max_bytes

\* fits, as the claim words it, on the tracked (count, bytes) of directory d;
\* an untracked directory counts (0, 0).
FitsAsStated(d) ==
    /\ max_per_dir > 0 => Get(dir_counts, d) < max_per_dir
    /\ max_dir_bytes > 0 => Get(dir_bytes, d) < max_dir_bytes

\* C17: every exported item goes to the first directory, in the order
\* primary, __part2, __part3, ..., that fits on its tracked (count, bytes):
\* that directory fits and none before it does; with both limits 0 it is the
\* primary.
C17_FirstFitPlacement ==
    [][exported' = exported + 1 =>
          \E d \in DOMAIN dir_counts' :
              /\ dir_counts'[d] = Get(dir_counts, d) + 1
              /\ FitsAsStated(d)
              /\ \A n \in 1..(d[2] - 1) : ~FitsAsStated(AltDir(d[1], n))
              /\ (max_per_dir = 0 /\ max_dir_bytes = 0) => d = PrimaryDir(d[1])]_vars

\* max_per_dir = 2 and five items of one year: two in the primary, two in
\* __part2, the fifth in __part3.
C17_Witness ==
    /\ max_per_dir = 2 /\ max_dir_bytes = 0 /\ exported = 5
    /\ DOMAIN dir_counts = {PrimaryDir(2020), AltDir(2020, 2), AltDir(2020, 3)}
    /\ dir_counts[PrimaryDir(2020)] = 2
    /\ dir_counts[AltDir(2020, 2)] = 2
    /\ dir_counts[AltDir(2020, 3)] = 1

\* The alternates a search can have to look at: one more than the tracked
\* directories.
ProbeBound == Cardinality(DOMAIN dir_counts) + 2

\* C18: in every reachable tracker state and for every primary directory,
\* some alternate among __part2 .. __part<ProbeBound> fits, and the search
\* ends on a directory of that primary that fits, no further than that.
C18_ProbeTerminates ==
    \A base \in Primaries :
        /\ \E n \in 2..ProbeBound : Fits(AltDir(base, n))
        /\ Fits(DestDir(base))
        /\ DestDir(base)[1] = base /\ DestDir(base)[2] <= ProbeBound

\* Both limits positive, the primary and __part2 of a year full: the search
\* ends on __part3 or later.
C18_Witness ==
    /\ max_per_dir > 0 /\ max_dir_bytes > 0
    /\ \E base \in Primaries :
           /\ ~Fits(PrimaryDir(base)) /\ ~Fits(AltDir(base, 2))
           /\ DestDir(base)[2] >= 3

\* C19: a successful write into directory d grows exactly d's tracked count
\* by 1 and d's tracked bytes by the item's size and changes no other
\* directory's trackers; a message that is not written (the write failed)
\* changes no tracker, is counted as skipped, and the loop is at its next
\* message.
C19_TrackerUpdate ==
    [][/\ exported' = exported + 1 =>
              \E d \in DOMAIN dir_counts', size \in 0..MaxMsgSize :
                  /\ DOMAIN dir_counts' = DOMAIN dir_counts \cup {d}
                  /\ DOMAIN dir_bytes' = DOMAIN dir_bytes \cup {d}
                  /\ dir_counts'[d] = Get(dir_counts, d) + 1
                  /\ dir_bytes'[d] = Get(dir_bytes, d) + size
                  /\ bigMsg' = Max(bigMsg, size)
                  /\ \A e \in DOMAIN dir_counts \ {d} :
                         dir_counts'[e] = dir_counts[e] /\ dir_bytes'[e] = dir_bytes[e]
                  /\ skipped' = skipped /\ msgs' = msgs + 1
       /\ skipped' # skipped =>
              /\ dir_counts' = dir_counts /\ dir_bytes' = dir_bytes
              /\ skipped' = skipped + 1 /\ exported' = exported
              /\ msgs' = msgs + 1 /\ mbox' = mbox]_vars

\* Two directories are tracked, one after writes of sizes 1 and 2, and a
\* message was skipped on the way.
C19_Witness ==
    /\ skipped >= 1 /\ exported = 3 /\ bigMsg = 2
    /\ \E d, e \in DOMAIN dir_counts :
           /\ d # e
           /\ dir_counts[d] = 2 /\ dir_bytes[d] = 3
           /\ dir_counts[e] = 1

\* C20, as stated: the handle route has just returned is the one the latest
\* successful provisioning at the lineage's current path returned, and that
\* store is attached.
C20_RoutedHandleOpen ==
    pc = "place" =>
        /\ pst_path \in DOMAIN gens
        /\ store = <<pst_path, gens[pst_path]>>
        /\ store \in stores

\* C21, as stated: a successful periodic flush leaves in the re-attached
\* container's file the items it held before the flush.
C21_FlushKeepsContent ==
    [][(pc = "flush" /\ gens' # gens) =>
          /\ pst_path \in DOMAIN disk'
          /\ disk'[pst_path] = disk[pst_path]]_vars

\* The bytes of the entries of yd for the keys in S, added up.
RECURSIVE SumBytes(_, _)
SumBytes(yd, S) ==
    IF S = {} THEN 0
    ELSE LET k == CHOOSE x \in S : TRUE
         IN  yd[k].bytes + SumBytes(yd, S \ {k})

\* The bytes credited to the containers that are current in the ledger.
OpenBytes == cur.bytes + SumBytes(year, DOMAIN year)

\* The bytes credited to the container the last route rotated out, if any.
RetiredBytes == IF lastRetired # <<>> THEN lastRetired.bytes ELSE 0

\* C22: every successful route call credits the item's size to exactly one
\* container, the one it returns: the bytes credited to all containers, the
\* current ones and the one just rotated out with what it held, grow by the
\* item's size, and no other step of the run changes the bytes credited. The
\* sum over all containers therefore equals the sum of the routed sizes.
C22_BytesConserved ==
    [][IF pc = "next" /\ pc' = "place"
       THEN /\ OpenBytes' + RetiredBytes' = OpenBytes + routedSize'
            /\ Cardinality(routeLog' \ routeLog) <= 1
            /\ \E r \in routeLog' :
                   /\ r.key = routedKey' /\ r.store = store' /\ r.path = pst_path'
                   /\ Lineage(r.key)'.store = r.store
                   /\ Lineage(r.key)'.bytes =
                          (IF lastRetired' # <<>> \/ ~HasLineage(r.key)
                           THEN 0 ELSE Lineage(r.key).bytes) + routedSize'
       ELSE OpenBytes' = OpenBytes]_vars

\* In keyed mode a year has just rotated: the part it retired holds bytes, the
\* new part holds the item's, and another year's container holds bytes too.
C22_Witness ==
    /\ by_year /\ pc = "place" /\ routedSize > 0
    /\ lastRetired # <<>> /\ lastRetired.bytes > 0
    /\ year[routedKey].part = 2 /\ year[routedKey].bytes = routedSize
    /\ \E y \in DOMAIN year : y # routedKey /\ year[y].bytes > 0

====
